---- MODULE Spec2Model ----
(***************************************************************************)
(* A model of the jcollections containers: the growable array store        *)
(* (Vector, with its Stack subclass), the binary-heap PriorityQueue and    *)
(* the list-backed ArrayDeque.                                             *)
(* Python lists are functions on 0..len-1, so list indices are the         *)
(* source's indices.  Every method is one action, taken when no call is    *)
(* pending; it records the call and its arguments (call), the store before *)
(* it (old) and its outcome (out: the exception raised, the value          *)
(* returned).  Return hands control back to the caller, who may then make  *)
(* the next call.  hist is the caller's own account of a store it has only *)
(* appended to (or, for a Stack, pushed to and popped from) since it was   *)
(* constructed.                                                            *)
(***************************************************************************)
EXTENDS Integers, Sequences, FiniteSets, TLC

VARIABLES elementData, elementCount, capacityIncrement, kind,
          call, old, out, trip, hist,
          heap, comparator, qcall, qold, qout,
          deque, dkind, dcall, dold, dout,
          vec, copy, touched

vvars == <<elementData, elementCount, capacityIncrement, kind, call, old, out, trip,
           hist>>
qvars == <<heap, comparator, qcall, qold, qout>>
dvars == <<deque, dkind, dcall, dold, dout>>
cvars == <<vec, copy, touched>>
vars == <<vvars, qvars, dvars, cvars>>

(* ------------------------------ bounds --------------------------------- *)

\* elements are 1..MaxElem
MaxElem == 2
\* no call is made that would take elementCount above MaxLen
MaxLen == 3
\* capacity increments 0..MaxInc
MaxInc == 2
\* the argument of ensureCapacity ranges over 0..MaxMinCap
MaxMinCap == MaxLen + 1
\* the elements of a PriorityQueue are 1..MaxPrio
MaxPrio == 3
\* no call is made that would take a PriorityQueue above MaxHeap elements
MaxHeap == 4
\* no call is made that would take an ArrayDeque above MaxDeque elements
MaxDeque == 3
\* no call is made that would take a copied Vector, its clone or its sublist above
\* MaxCopyLen elements
MaxCopyLen == 2

(* --------------------------- Python values ----------------------------- *)

\* Python's None, encoded as an integer outside 1..MaxElem
None == 0
Elems == 1..MaxElem
Vals == Elems \cup {None}

\* len(list)
len(d) == Cardinality(DOMAIN d)
\* [None] * n  (the empty list when n <= 0)
NoneList(n) == [i \in 0..(n - 1) |-> None]
\* list(c) of a 1-indexed sequence
ListOf(c) == [i \in 0..(Len(c) - 1) |-> c[i + 1]]
\* d[lo:hi] for 0 <= lo <= hi <= len(d), as a sequence
Slice(d, lo, hi) == [j \in 1..(hi - lo) |-> d[lo + j - 1]]
\* the live elements elementData[:elementCount]
Live(d, n) == Slice(d, 0, n)

\* a call's outcome: the store it leaves, the exception raised, the value returned
Ret(d, n, v) == [elementData |-> d, elementCount |-> n, exc |-> "none", ret |-> v]
Raise(d, n, x) == [elementData |-> d, elementCount |-> n, exc |-> x, ret |-> None]

(* ------------------------------ Vector --------------------------------- *)

DefaultCapacity == 10

\* mutant of ensureCapacity: the buffer grows to min_capacity and no further
ensureCapacityExact(d, n, k, min_capacity) ==
    IF min_capacity > len(d)
    THEN [i \in 0..(min_capacity - 1) |-> IF i < n THEN d[i] ELSE None]
    ELSE d

\* mutant of ensureCapacity: the copy loop is for i in range(elementCount - 1)
ensureCapacityDropLast(d, n, k, min_capacity) ==
    IF min_capacity > len(d)
    THEN LET grown == IF k > 0 THEN len(d) + k ELSE len(d) * 2
             new_capacity == IF grown < min_capacity THEN min_capacity ELSE grown
         IN  [i \in 0..(new_capacity - 1) |-> IF i < n - 1 THEN d[i] ELSE None]
    ELSE d

ensureCapacity(d, n, k, min_capacity) ==
    IF min_capacity > len(d)
    THEN LET grown == IF k > 0 THEN len(d) + k ELSE len(d) * 2
             new_capacity == IF grown < min_capacity THEN min_capacity ELSE grown
         IN  [i \in 0..(new_capacity - 1) |-> IF i < n THEN d[i] ELSE None]
    ELSE d

addElement(d, n, k, obj) ==
    LET d1 == IF n = len(d)
              THEN ensureCapacity(d, n, k, len(d) + (IF k > 0 THEN k ELSE len(d)))
              ELSE d
    IN  IF n >= len(d1)
        THEN Raise(d1, n, "IndexError")
        ELSE Ret([d1 EXCEPT ![n] = obj], n + 1, None)

\* mutant of add1: the buffer grows by the one slot needed
add1Exact(d, n, k, element) ==
    LET d1 == ensureCapacityExact(d, n, k, n + 1)
    IN  Ret([d1 EXCEPT ![n] = element], n + 1, TRUE)

add1(d, n, k, element) ==
    LET d1 == ensureCapacity(d, n, k, n + 1)
    IN  Ret([d1 EXCEPT ![n] = element], n + 1, TRUE)

\* mutant of ShiftRight: the loop runs upwards, for i in range(index + 1, from + 1)
RECURSIVE ShiftUpFrom(_, _, _)
ShiftUpFrom(d, i, last) ==
    IF i > last THEN d
    ELSE ShiftUpFrom([d EXCEPT ![i] = d[i - 1]], i + 1, last)

ShiftRightUp(d, i, index) == ShiftUpFrom(d, index + 1, i)

\* for i in range(from, index, -1): d[i] = d[i - 1]
RECURSIVE ShiftRight(_, _, _)
ShiftRight(d, i, index) ==
    IF i <= index THEN d
    ELSE ShiftRight([d EXCEPT ![i] = d[i - 1]], i - 1, index)

\* mutant of add2: the shift loop is missing
add2NoShift(d, n, k, index, element) ==
    IF index > n \/ index < 0
    THEN Raise(d, n, "IndexError")
    ELSE LET d1 == ensureCapacity(d, n, k, n + 1)
         IN  Ret([d1 EXCEPT ![index] = element], n + 1, None)

add2(d, n, k, index, element) ==
    IF index > n \/ index < 0
    THEN Raise(d, n, "IndexError")
    ELSE LET d1 == ensureCapacity(d, n, k, n + 1)
             d2 == ShiftRight(d1, n, index)
         IN  Ret([d2 EXCEPT ![index] = element], n + 1, None)

\* for element in collection: d[at] = element; at += 1
RECURSIVE WriteAll(_, _, _, _)
WriteAll(d, at, c, j) ==
    IF j > Len(c) THEN d
    ELSE WriteAll([d EXCEPT ![at] = c[j]], at + 1, c, j + 1)

addAll1(d, n, k, c) ==
    IF Len(c) = 0
    THEN Ret(d, n, FALSE)
    ELSE LET d1 == ensureCapacity(d, n, k, n + Len(c))
         IN  Ret(WriteAll(d1, n, c, 1), n + Len(c), TRUE)

\* for i in range(from, index - 1, -1): d[i + m] = d[i]
RECURSIVE ShiftRightBy(_, _, _, _)
ShiftRightBy(d, i, index, m) ==
    IF i < index THEN d
    ELSE ShiftRightBy([d EXCEPT ![i + m] = d[i]], i - 1, index, m)

addAll2(d, n, k, index, c) ==
    IF index < 0 \/ index > n
    THEN Raise(d, n, "IndexError")
    ELSE IF Len(c) = 0
    THEN Ret(d, n, FALSE)
    ELSE LET d1 == ensureCapacity(d, n, k, n + Len(c))
             d2 == ShiftRightBy(d1, n - 1, index, Len(c))
         IN  Ret(WriteAll(d2, index, c, 1), n + Len(c), TRUE)

\* mutant of clear: only the count is reset
clearCountOnly(d, n) == Ret(d, 0, None)

clear(d, n) == Ret(NoneList(len(d)), 0, None)

\* mutant of get: the bound check is index > elementCount (the list itself still
\* raises IndexError at index = len)
getOffByOne(d, n, index) ==
    IF index < 0 \/ index > n \/ index >= len(d)
    THEN Raise(d, n, "IndexError")
    ELSE Ret(d, n, d[index])

get(d, n, index) ==
    IF index < 0 \/ index >= n
    THEN Raise(d, n, "IndexError")
    ELSE Ret(d, n, d[index])

indexOf(d, n, o) ==
    IF \E i \in 0..(n - 1) : d[i] = o
    THEN CHOOSE i \in 0..(n - 1) : d[i] = o /\ \A j \in 0..(i - 1) : d[j] # o
    ELSE -1

lastIndexOf(d, n, o) ==
    IF \E i \in 0..(n - 1) : d[i] = o
    THEN CHOOSE i \in 0..(n - 1) : d[i] = o /\ \A j \in (i + 1)..(n - 1) : d[j] # o
    ELSE -1

\* for i in range(from, last): d[i] = d[i + 1]
RECURSIVE ShiftLeft(_, _, _)
ShiftLeft(d, i, last) ==
    IF i >= last THEN d
    ELSE ShiftLeft([d EXCEPT ![i] = d[i + 1]], i + 1, last)

\* mutant of removeAt: the vacated slot is not cleared
removeAtNoClear(d, n, index) ==
    IF index < 0 \/ index >= n
    THEN Raise(d, n, "IndexError")
    ELSE Ret(ShiftLeft(d, index, n - 1), n - 1, d[index])

\* mutant of removeAt: the slot is deleted from the buffer (del elementData[index])
removeAtDel(d, n, index) ==
    IF index < 0 \/ index >= n
    THEN Raise(d, n, "IndexError")
    ELSE Ret([i \in 0..(len(d) - 2) |-> IF i < index THEN d[i] ELSE d[i + 1]],
             n - 1, d[index])

removeAt(d, n, index) ==
    IF index < 0 \/ index >= n
    THEN Raise(d, n, "IndexError")
    ELSE LET d1 == ShiftLeft(d, index, n - 1)
         IN  Ret([d1 EXCEPT ![n - 1] = None], n - 1, d[index])

removeElement(d, n, element) ==
    LET index == indexOf(d, n, element)
    IN  IF index # -1
        THEN LET r == removeAt(d, n, index)
             IN  IF r.exc = "IndexError"
                 THEN Ret(r.elementData, r.elementCount, FALSE)
                 ELSE Ret(r.elementData, r.elementCount, TRUE)
        ELSE Ret(d, n, FALSE)

\* while self.removeElement(elem): removed = True
RECURSIVE RemoveEvery(_, _, _)
RemoveEvery(d, n, elem) ==
    LET r == removeElement(d, n, elem)
    IN  IF r.ret THEN RemoveEvery(r.elementData, r.elementCount, elem)
        ELSE [elementData |-> d, elementCount |-> n]

RECURSIVE RemoveAllLoop(_, _, _)
RemoveAllLoop(d, n, c) ==
    IF c = {} THEN [elementData |-> d, elementCount |-> n]
    ELSE LET elem == CHOOSE x \in c : TRUE
             s == RemoveEvery(d, n, elem)
         IN  RemoveAllLoop(s.elementData, s.elementCount, c \ {elem})

removeAll(d, n, c) ==
    LET s == RemoveAllLoop(d, n, c)
    IN  Ret(s.elementData, s.elementCount, s.elementCount # n)

\* mutant of trimToSize: the slice is elementData[:elementCount + 1]
trimToSizeKeepOne(d, n) ==
    IF len(d) > n
    THEN Ret([i \in 0..n |-> d[i]], n, None)
    ELSE Ret(d, n, None)

trimToSize(d, n) ==
    IF len(d) > n
    THEN Ret([i \in 0..(n - 1) |-> d[i]], n, None)
    ELSE Ret(d, n, None)

\* mutant of setSize: the buffer is not grown
setSizeNoGrow(d, n, k, newSize) ==
    IF newSize < 0
    THEN Raise(d, n, "ValueError")
    ELSE IF newSize < n
    THEN Ret([i \in DOMAIN d |-> IF i >= newSize /\ i < n THEN None ELSE d[i]],
             newSize, None)
    ELSE Ret(d, newSize, None)

\* mutant of setSize: the dropped slots are not cleared
setSizeNoClear(d, n, k, newSize) ==
    IF newSize < 0
    THEN Raise(d, n, "ValueError")
    ELSE IF newSize > len(d)
    THEN Ret(ensureCapacity(d, n, k, newSize), newSize, None)
    ELSE Ret(d, newSize, None)

setSize(d, n, k, newSize) ==
    IF newSize < 0
    THEN Raise(d, n, "ValueError")
    ELSE IF newSize > len(d)
    THEN Ret(ensureCapacity(d, n, k, newSize), newSize, None)
    ELSE IF newSize < n
    THEN Ret([i \in DOMAIN d |-> IF i >= newSize /\ i < n THEN None ELSE d[i]],
             newSize, None)
    ELSE Ret(d, newSize, None)

\* mutant of setElementAt: an index at or beyond the length is refused, as in set
setElementAtChecked(d, n, k, value, index) ==
    IF index < 0 \/ index >= n
    THEN Raise(d, n, "IndexError")
    ELSE Ret([d EXCEPT ![index] = value], n, None)

setElementAt(d, n, k, value, index) ==
    IF index < 0
    THEN Raise(d, n, "IndexError")
    ELSE LET d1 == IF index >= len(d) THEN ensureCapacity(d, n, k, index + 1) ELSE d
             n1 == IF index >= n THEN index + 1 ELSE n
         IN  Ret([d1 EXCEPT ![index] = value], n1, None)

\* for i in range(count0): if d[i] not in c: self.__removeAt__(i); removed = True
RECURSIVE RetainLoop(_, _, _, _, _, _)
RetainLoop(d, n, c, i, count0, removed) ==
    IF i >= count0 THEN Ret(d, n, removed)
    ELSE IF d[i] \notin c
    THEN LET r == removeAt(d, n, i)
         IN  IF r.exc # "none" THEN r
             ELSE RetainLoop(r.elementData, r.elementCount, c, i + 1, count0, TRUE)
    ELSE RetainLoop(d, n, c, i + 1, count0, removed)

retainAll(d, n, c) == RetainLoop(d, n, c, 0, n, FALSE)

\* for i in range(n - 1, -1, -1): if predicate(d[i]): self.__removeAt__(i)
RECURSIVE RemoveIfLoop(_, _, _, _, _)
RemoveIfLoop(d, n, p, i, removed) ==
    IF i < 0 THEN Ret(d, n, removed)
    ELSE IF d[i] \in p
    THEN LET r == removeAt(d, n, i)
         IN  IF r.exc # "none" THEN r
             ELSE RemoveIfLoop(r.elementData, r.elementCount, p, i - 1, TRUE)
    ELSE RemoveIfLoop(d, n, p, i - 1, removed)

\* mutant of removeIf: the loop runs forwards, for i in range(elementCount)
removeIfForward(d, n, p) == RetainLoop(d, n, Vals \ p, 0, n, FALSE)

removeIf(d, n, p) == RemoveIfLoop(d, n, p, n - 1, FALSE)

\* mutant of set: the value returned is read after the assignment
setReturnsNew(d, n, index, element) ==
    IF index < 0 \/ index >= n
    THEN Raise(d, n, "IndexError")
    ELSE Ret([d EXCEPT ![index] = element], n, element)

set(d, n, index, element) ==
    IF index < 0 \/ index >= n
    THEN Raise(d, n, "IndexError")
    ELSE Ret([d EXCEPT ![index] = element], n, d[index])

subList(d, n, fromIndex, toIndex) ==
    IF fromIndex < 0 \/ toIndex > n \/ fromIndex > toIndex
    THEN Raise(d, n, "IndexError")
    ELSE Ret(d, n, Slice(d, fromIndex, toIndex))

\* the key functions passed to sort: identity, negation, a constant
\* "isNone" is lambda x: x is None, with False < True
SortKeys == {"id", "neg", "const", "isNone"}
KeyOf(c, x) ==
    IF c = "id" THEN x
    ELSE IF c = "neg" THEN 0 - x
    ELSE IF c = "isNone" THEN (IF x = None THEN 1 ELSE 0)
    ELSE 0
\* sorted() raises TypeError when a key cannot be computed or compared
KeyFails(c, s) ==
    \/ c = "neg" /\ \E j \in 1..Len(s) : s[j] = None
    \/ c = "id" /\ Len(s) >= 2 /\ \E j \in 1..Len(s) : s[j] = None

\* insert x before the elements whose key is equal
RECURSIVE InsertSortedBefore(_, _, _)
InsertSortedBefore(s, x, c) ==
    IF s = <<>> THEN <<x>>
    ELSE IF KeyOf(c, x) <= KeyOf(c, Head(s)) THEN <<x>> \o s
    ELSE <<Head(s)>> \o InsertSortedBefore(Tail(s), x, c)

\* insert x behind every element whose key is not greater (stable)
RECURSIVE InsertSorted(_, _, _)
InsertSorted(s, x, c) ==
    IF s = <<>> THEN <<x>>
    ELSE IF KeyOf(c, x) < KeyOf(c, Head(s)) THEN <<x>> \o s
    ELSE <<Head(s)>> \o InsertSorted(Tail(s), x, c)

RECURSIVE Sorted(_, _)
Sorted(s, c) ==
    IF s = <<>> THEN <<>>
    ELSE InsertSorted(Sorted(SubSeq(s, 1, Len(s) - 1), c), s[Len(s)], c)

sort(d, n, c) ==
    IF KeyFails(c, Live(d, n))
    THEN Raise(d, n, "TypeError")
    ELSE LET s == Sorted(Live(d, n), c)
         IN  Ret([i \in DOMAIN d |-> IF i < n THEN s[i + 1] ELSE d[i]], n, None)

(* ------------------------------- Stack --------------------------------- *)

\* mutant of peek: the empty() test is missing, so that an empty stack with a
\* buffer answers elementData[-1]
peekNoCheck(d, n) ==
    IF n = 0
    THEN IF len(d) = 0 THEN Raise(d, n, "IndexError") ELSE Ret(d, n, d[len(d) - 1])
    ELSE Ret(d, n, d[n - 1])

peek(d, n) ==
    IF n = 0 THEN Raise(d, n, "IndexError") ELSE Ret(d, n, d[n - 1])

\* mutant of pop: the element at the bottom is taken
popFirst(d, n) ==
    IF n = 0 THEN Raise(d, n, "IndexError")
    ELSE LET r == removeAt(d, n, 0)
         IN  IF r.exc # "none" THEN r
             ELSE Ret(r.elementData, r.elementCount, d[0])

pop(d, n) ==
    IF n = 0 THEN Raise(d, n, "IndexError")
    ELSE LET r == removeAt(d, n, n - 1)
         IN  IF r.exc # "none" THEN r
             ELSE Ret(r.elementData, r.elementCount, d[n - 1])

push(d, n, k, item) ==
    LET r == addElement(d, n, k, item)
    IN  IF r.exc # "none" THEN r ELSE Ret(r.elementData, r.elementCount, item)

\* mutant of search: the index is resolved with indexOf
searchFirst(d, n, o) ==
    LET index == indexOf(d, n, o)
    IN  IF index = -1 THEN Ret(d, n, -1) ELSE Ret(d, n, n - index)

search(d, n, o) ==
    LET index == lastIndexOf(d, n, o)
    IN  IF index = -1 THEN Ret(d, n, -1) ELSE Ret(d, n, n - index)

(* ------------------------- Vector: the actions -------------------------- *)

\* seed collections (constructor, addAll): the lists of at most two elements
Seeds == {<<>>} \cup {<<a>> : a \in Elems} \cup {<<a, b>> : a \in Elems, b \in Elems}
\* initial capacities: negative ([None] * -1 is the empty list), 0, 1 and 2
InitCaps == {-1, 0, 1, 2}

NoCall == [op |-> "none", i |-> 0, j |-> 0, e |-> None, c |-> {}, s |-> <<>>]
NoOld == [elementData |-> <<>>, elementCount |-> 0]
NoOut == [exc |-> "none", ret |-> None]
NoTrip == [phase |-> 0, seq |-> <<>>, i |-> 0, v |-> None]
\* the caller keeps no account: the store was built from a collection, or a call
\* other than those of HistOps was made
NoHist == [valid |-> FALSE, c0 |-> 0, seq |-> <<>>, top |-> <<>>]
\* the account of a store just constructed empty with capacity c
NewHist(c) == [valid |-> TRUE, c0 |-> c, seq |-> <<>>, top |-> <<>>]

\* Vector() and Stack() (the same constructor: the default store is modelled once,
\* as a Stack, whose Vector methods are the inherited ones), Vector(initialCapacity),
\* Vector(initialCapacity, capacityIncrement), Vector(collection)
InitV ==
    /\ \/ /\ kind = "Stack"
          /\ elementData = NoneList(DefaultCapacity)
          /\ elementCount = 0
          /\ capacityIncrement = 0
          /\ hist = NewHist(DefaultCapacity)
       \/ /\ kind = "Vector"
          /\ \E initialCapacity \in InitCaps : elementData = NoneList(initialCapacity)
          /\ elementCount = 0
          /\ capacityIncrement \in 0..MaxInc
          /\ hist = NewHist(len(elementData))
       \/ /\ kind = "Vector"
          /\ \E c \in Seeds : elementData = ListOf(c) /\ elementCount = Len(c)
          /\ capacityIncrement = 0
          /\ hist = NoHist
    /\ call = NoCall
    /\ old = NoOld
    /\ out = NoOut
    /\ trip = NoTrip

\* the round trip: v = remove-at-index(i), followed at once by add(i, v)
NextTrip(c, r) ==
    IF c.op \in {"remove", "removeElementAt"} /\ r.exc = "none"
    THEN [phase |-> 1, seq |-> Live(elementData, elementCount), i |-> c.i, v |-> r.ret]
    ELSE IF c.op = "add2" /\ r.exc = "none" /\ trip.phase = 1 /\ c.i = trip.i /\ c.e = trip.v
    THEN [trip EXCEPT !.phase = 2]
    ELSE NoTrip

\* the calls an account is kept through: a Stack's push, pop, peek and search, a
\* Vector's add(e), addElement(e) and get(i)
HistOps == IF kind = "Stack" THEN {"push", "pop", "peek", "search"}
           ELSE {"add1", "addElement", "get"}

\* the account after call c with outcome r: an append adds its element, a pop takes
\* the last one; top is the last element of the account before the call, if any
NextHist(c, r) ==
    IF ~hist.valid \/ c.op \notin HistOps THEN NoHist
    ELSE LET seq == hist.seq
             top == IF seq = <<>> THEN <<>> ELSE <<seq[Len(seq)]>>
         IN  IF r.exc # "none" THEN [hist EXCEPT !.top = top]
             ELSE IF c.op \in {"push", "add1", "addElement"}
             THEN [hist EXCEPT !.seq = Append(seq, c.e), !.top = top]
             ELSE IF c.op = "pop"
             THEN [hist EXCEPT !.seq = SubSeq(seq, 1, Len(seq) - 1), !.top = top]
             ELSE [hist EXCEPT !.top = top]

\* the caller makes call c, which ends with outcome r
Does(c, r) ==
    /\ call.op = "none"
    /\ r.elementCount <= MaxLen
    /\ elementData' = r.elementData
    /\ elementCount' = r.elementCount
    /\ call' = c
    /\ old' = [elementData |-> elementData, elementCount |-> elementCount]
    /\ out' = [exc |-> r.exc, ret |-> r.ret]
    /\ trip' = NextTrip(c, r)
    /\ hist' = NextHist(c, r)
    /\ UNCHANGED <<capacityIncrement, kind, qvars, dvars, cvars>>

\* control is back with the caller
Return ==
    /\ call.op # "none"
    /\ call' = NoCall
    /\ old' = NoOld
    /\ out' = NoOut
    /\ trip' = IF trip.phase = 1 THEN trip ELSE NoTrip
    /\ hist' = [hist EXCEPT !.top = <<>>]
    /\ UNCHANGED <<elementData, elementCount, capacityIncrement, kind, qvars, dvars,
                   cvars>>

\* index arguments: below 0, every valid index, the length, above the length
Indices == -1..(elementCount + 1)

EnsureCapacity ==
    \E m \in 0..MaxMinCap :
        Does([NoCall EXCEPT !.op = "ensureCapacity", !.i = m],
             Ret(ensureCapacity(elementData, elementCount, capacityIncrement, m),
                 elementCount, None))

AddElement ==
    \E e \in Vals :
        Does([NoCall EXCEPT !.op = "addElement", !.e = e],
             addElement(elementData, elementCount, capacityIncrement, e))

Add1 ==
    \E e \in Vals :
        Does([NoCall EXCEPT !.op = "add1", !.e = e],
             add1(elementData, elementCount, capacityIncrement, e))

Add2 ==
    \E i \in Indices, e \in Vals :
        Does([NoCall EXCEPT !.op = "add2", !.i = i, !.e = e],
             add2(elementData, elementCount, capacityIncrement, i, e))

AddAll1 ==
    \E s \in Seeds :
        Does([NoCall EXCEPT !.op = "addAll1", !.s = s],
             addAll1(elementData, elementCount, capacityIncrement, s))

AddAll2 ==
    \E i \in Indices, s \in Seeds :
        Does([NoCall EXCEPT !.op = "addAll2", !.i = i, !.s = s],
             addAll2(elementData, elementCount, capacityIncrement, i, s))

Clear ==
    Does([NoCall EXCEPT !.op = "clear"], clear(elementData, elementCount))

Get ==
    \E i \in Indices :
        Does([NoCall EXCEPT !.op = "get", !.i = i], get(elementData, elementCount, i))

\* remove(arg) with an integer arg
Remove ==
    \E i \in Indices :
        Does([NoCall EXCEPT !.op = "remove", !.i = i],
             removeAt(elementData, elementCount, i))

\* remove(arg) with an arg that is no integer: of the values here, None
RemoveValue ==
    Does([NoCall EXCEPT !.op = "removeValue", !.e = None],
         removeElement(elementData, elementCount, None))

RemoveElementAt ==
    \E i \in Indices :
        Does([NoCall EXCEPT !.op = "removeElementAt", !.i = i],
             removeAt(elementData, elementCount, i))

RemoveElement ==
    \E e \in Vals :
        Does([NoCall EXCEPT !.op = "removeElement", !.e = e],
             removeElement(elementData, elementCount, e))

RemoveAll ==
    \E c \in SUBSET Vals :
        Does([NoCall EXCEPT !.op = "removeAll", !.c = c],
             removeAll(elementData, elementCount, c))

RetainAll ==
    \E c \in SUBSET Vals :
        Does([NoCall EXCEPT !.op = "retainAll", !.c = c],
             retainAll(elementData, elementCount, c))

\* the predicate is true of the values in p
RemoveIf ==
    \E p \in SUBSET Vals :
        Does([NoCall EXCEPT !.op = "removeIf", !.c = p],
             removeIf(elementData, elementCount, p))

TrimToSize ==
    Does([NoCall EXCEPT !.op = "trimToSize"], trimToSize(elementData, elementCount))

SetSize ==
    \E m \in -1..MaxLen :
        Does([NoCall EXCEPT !.op = "setSize", !.i = m],
             setSize(elementData, elementCount, capacityIncrement, m))

SetElementAt ==
    \E i \in Indices, e \in Vals :
        Does([NoCall EXCEPT !.op = "setElementAt", !.i = i, !.e = e],
             setElementAt(elementData, elementCount, capacityIncrement, e, i))

Set ==
    \E i \in Indices, e \in Vals :
        Does([NoCall EXCEPT !.op = "set", !.i = i, !.e = e],
             set(elementData, elementCount, i, e))

SubList ==
    \E i \in Indices, j \in Indices :
        Does([NoCall EXCEPT !.op = "subList", !.i = i, !.j = j],
             subList(elementData, elementCount, i, j))

Sort ==
    \E c \in SortKeys :
        Does([NoCall EXCEPT !.op = "sort", !.s = c], sort(elementData, elementCount, c))

Peek ==
    /\ kind = "Stack"
    /\ Does([NoCall EXCEPT !.op = "peek"], peek(elementData, elementCount))

Pop ==
    /\ kind = "Stack"
    /\ Does([NoCall EXCEPT !.op = "pop"], pop(elementData, elementCount))

Push ==
    /\ kind = "Stack"
    /\ \E e \in Vals :
           Does([NoCall EXCEPT !.op = "push", !.e = e],
                push(elementData, elementCount, capacityIncrement, e))

Search ==
    /\ kind = "Stack"
    /\ \E e \in Vals :
           Does([NoCall EXCEPT !.op = "search", !.e = e],
                search(elementData, elementCount, e))

NextV ==
    \/ EnsureCapacity \/ AddElement \/ Add1 \/ Add2 \/ AddAll1 \/ AddAll2
    \/ Clear \/ Get \/ Remove \/ RemoveValue \/ RemoveElementAt \/ RemoveElement
    \/ RemoveAll
    \/ RetainAll \/ RemoveIf \/ TrimToSize \/ SetSize \/ SetElementAt \/ Set
    \/ SubList \/ Sort \/ Peek \/ Pop \/ Push \/ Search \/ Return

(* --------------------------- PriorityQueue ----------------------------- *)
(* The values a queue handles are ints and (key, element) tuples.  An int  *)
(* e is written <<e>> and a tuple (k, e) is written <<k, e>>, so that      *)
(* Python's == and < between them are defined on one shape: an int never   *)
(* equals a tuple, and tuples compare lexicographically.                   *)

I(x) == <<x>>
QElems == {I(e) : e \in 1..MaxPrio}

\* a < b for two ints or two (key, element) tuples
Less(a, b) ==
    IF Len(a) = 1 THEN a[1] < b[1]
    ELSE a[1] < b[1] \/ (a[1] = b[1] /\ a[2] < b[2])

\* list.append
Append0(h, x) == [i \in 0..len(h) |-> IF i < len(h) THEN h[i] ELSE x]
\* del list[k]
Delete0(h, k) == [i \in 0..(len(h) - 2) |-> IF i < k THEN h[i] ELSE h[i + 1]]
\* list.index: the first position holding o, or -1
Index0(h, o) ==
    IF \E i \in DOMAIN h : h[i] = o
    THEN CHOOSE i \in DOMAIN h : h[i] = o /\ \A j \in 0..(i - 1) : h[j] # o
    ELSE -1

\* [item for item in h if item in keep]: the kept items in heap-array order
Filter0(h, keep) ==
    ListOf(SelectSeq([j \in 1..len(h) |-> h[j - 1]], LAMBDA x : x \in keep))

\* heapq._siftdown: move newitem towards the root while it is less than its parent
RECURSIVE SiftDownLoop(_, _, _, _)
SiftDownLoop(h, startpos, pos, newitem) ==
    IF pos > startpos
    THEN LET parentpos == (pos - 1) \div 2
             parent == h[parentpos]
         IN  IF Less(newitem, parent)
             THEN SiftDownLoop([h EXCEPT ![pos] = parent], startpos, parentpos, newitem)
             ELSE [h EXCEPT ![pos] = newitem]
    ELSE [h EXCEPT ![pos] = newitem]

siftdown(h, startpos, pos) == SiftDownLoop(h, startpos, pos, h[pos])

\* heapq._siftup: bubble the smaller child up until a leaf is reached
RECURSIVE SiftUpLoop(_, _, _)
SiftUpLoop(h, pos, childpos) ==
    IF childpos < len(h)
    THEN LET rightpos == childpos + 1
             c == IF rightpos < len(h) /\ ~Less(h[childpos], h[rightpos])
                  THEN rightpos ELSE childpos
         IN  SiftUpLoop([h EXCEPT ![pos] = h[c]], c, 2 * c + 1)
    ELSE [h |-> h, pos |-> pos]

siftup(h, pos) ==
    LET newitem == h[pos]
        s == SiftUpLoop(h, pos, 2 * pos + 1)
    IN  siftdown([s.h EXCEPT ![s.pos] = newitem], pos, s.pos)

\* mutant of heappush: the new item is appended and not sifted
heappushNoSift(h, item) == Append0(h, item)

heappush(h, item) == siftdown(Append0(h, item), 0, len(h))

\* heapq.heappop of a non-empty heap: the heap left and the item returned
heappop(h) ==
    LET lastelt == h[len(h) - 1]
        h1 == [i \in 0..(len(h) - 2) |-> h[i]]
    IN  IF len(h1) > 0
        THEN [heap |-> siftup([h1 EXCEPT ![0] = lastelt], 0), item |-> h1[0]]
        ELSE [heap |-> h1, item |-> lastelt]

\* for i in reversed(range(n // 2)): _siftup(x, i)
RECURSIVE HeapifyLoop(_, _)
HeapifyLoop(h, i) == IF i < 0 THEN h ELSE HeapifyLoop(siftup(h, i), i - 1)

\* mutant of heapify: the array is left as it is
heapifySkip(h) == h

heapify(h) == HeapifyLoop(h, (len(h) \div 2) - 1)

\* comparator is None or a key function: negation, a constant, the identity
Comparators == {"None", "neg", "const", "id"}

QRet(h, v) == [heap |-> h, exc |-> "none", ret |-> v]
QRaise(h, x) == [heap |-> h, exc |-> x, ret |-> I(None)]

qadd(h, cmp, e) ==
    IF cmp # "None"
    THEN QRet(heappush(h, <<KeyOf(cmp, e[1]), e[1]>>), TRUE)
    ELSE QRet(heappush(h, e), TRUE)

\* mutant of qpeek: the heap entry itself is returned
qpeekEntry(h, cmp) == QRet(h, IF len(h) = 0 THEN I(None) ELSE h[0])

qpeek(h, cmp) ==
    IF len(h) = 0 THEN QRet(h, I(None))
    ELSE QRet(h, IF cmp # "None" THEN I(h[0][2]) ELSE h[0])

qpoll(h, cmp) ==
    IF len(h) = 0 THEN QRet(h, I(None))
    ELSE LET r == heappop(h)
         IN  QRet(r.heap, IF cmp # "None" THEN I(r.item[2]) ELSE r.item)

\* mutant of qremove: every entry equal to o is removed
qremoveEvery(h, o) ==
    IF Index0(h, o) = -1 THEN QRet(h, FALSE)
    ELSE QRet(heapify(Filter0(h, {h[i] : i \in DOMAIN h} \ {o})), TRUE)

qremove(h, o) ==
    LET k == Index0(h, o)
    IN  IF k = -1 THEN QRet(h, FALSE)
        ELSE QRet(heapify(Delete0(h, k)), TRUE)

qcontains(h, o) == QRet(h, \E i \in DOMAIN h : h[i] = o)

qclear(h) == QRet(<<>>, I(None))

\* list(self._heap): a new list holding the heap's entries in heap order
qtoArray(h) == QRet(h, h)

qelement(h, cmp) ==
    IF len(h) = 0 THEN QRaise(h, "IndexError") ELSE qpeek(h, cmp)

\* for item in collection: self.remove(item)
RECURSIVE QRemoveAllLoop(_, _)
QRemoveAllLoop(h, c) ==
    IF c = {} THEN h
    ELSE LET item == CHOOSE x \in c : TRUE
         IN  QRemoveAllLoop(qremove(h, item).heap, c \ {item})

qremoveAll(h, c) == QRet(QRemoveAllLoop(h, c), I(None))

qretainAll(h, c) == QRet(heapify(Filter0(h, c)), I(None))

\* the predicate is true of the values in p
qremoveIf(h, p) ==
    QRet(heapify(Filter0(h, {h[i] : i \in DOMAIN h} \ p)), I(None))

(* --------------------- PriorityQueue: the actions ---------------------- *)

RECURSIVE AddEach(_, _, _)
AddEach(h, cmp, s) ==
    IF s = <<>> THEN h ELSE AddEach(qadd(h, cmp, Head(s)).heap, cmp, Tail(s))

QSeeds == {<<>>} \cup {<<a>> : a \in QElems} \cup {<<a, b>> : a \in QElems, b \in QElems}
NoQCall == [op |-> "none", o |-> I(None), c |-> {}]

\* PriorityQueue(initial, comparator): each initial element is added in turn
InitQ ==
    /\ comparator \in Comparators
    /\ \E s \in QSeeds : heap = AddEach(<<>>, comparator, s)
    /\ qcall = NoQCall
    /\ qold = <<>>
    /\ qout = NoOut

\* the (key, element) tuples a queue with a comparator holds
QPairs == IF comparator = "None" THEN {}
          ELSE {<<KeyOf(comparator, e[1]), e[1]>> : e \in QElems}
\* the arguments of remove and contains: elements and, with a comparator, held tuples
QObjects == QElems \cup QPairs

QDoes(c, r) ==
    /\ qcall.op = "none"
    /\ len(r.heap) <= MaxHeap
    /\ heap' = r.heap
    /\ qcall' = c
    /\ qold' = heap
    /\ qout' = [exc |-> r.exc, ret |-> r.ret]
    /\ UNCHANGED <<comparator, vvars, dvars, cvars>>

QReturn ==
    /\ qcall.op # "none"
    /\ qcall' = NoQCall
    /\ qold' = <<>>
    /\ qout' = NoOut
    /\ UNCHANGED <<heap, comparator, vvars, dvars, cvars>>

\* add(e) and offer(e), which calls add
QAdd ==
    \E e \in QElems, op \in {"add", "offer"} :
        QDoes([NoQCall EXCEPT !.op = op, !.o = e], qadd(heap, comparator, e))

QPeek == QDoes([NoQCall EXCEPT !.op = "peek"], qpeek(heap, comparator))

QPoll == QDoes([NoQCall EXCEPT !.op = "poll"], qpoll(heap, comparator))

QRemove ==
    \E o \in QObjects : QDoes([NoQCall EXCEPT !.op = "remove", !.o = o], qremove(heap, o))

QContains ==
    \E o \in QObjects :
        QDoes([NoQCall EXCEPT !.op = "contains", !.o = o], qcontains(heap, o))

QClear == QDoes([NoQCall EXCEPT !.op = "clear"], qclear(heap))

QElement == QDoes([NoQCall EXCEPT !.op = "element"], qelement(heap, comparator))

QToArray == QDoes([NoQCall EXCEPT !.op = "toArray"], qtoArray(heap))

QRemoveAll ==
    \E c \in SUBSET QElems :
        QDoes([NoQCall EXCEPT !.op = "removeAll", !.c = c], qremoveAll(heap, c))

QRetainAll ==
    \E c \in SUBSET QElems :
        QDoes([NoQCall EXCEPT !.op = "retainAll", !.c = c], qretainAll(heap, c))

QRemoveIf ==
    \E p \in SUBSET QElems :
        QDoes([NoQCall EXCEPT !.op = "removeIf", !.c = p], qremoveIf(heap, p))

NextQ ==
    \/ QAdd \/ QPeek \/ QPoll \/ QRemove \/ QContains \/ QClear \/ QElement
    \/ QRemoveAll \/ QRetainAll \/ QRemoveIf \/ QToArray \/ QReturn

(* ----------------------------- ArrayDeque ------------------------------ *)
(* The deque is the Python list _deque; its elements are the values of a   *)
(* Vector (1..MaxElem and None).                                           *)

\* list.insert(0, x)
Insert0(q, x) == [i \in 0..len(q) |-> IF i = 0 THEN x ELSE q[i - 1]]

DRet(q, v) == [deque |-> q, exc |-> "none", ret |-> v]
DRaise(q, x) == [deque |-> q, exc |-> x, ret |-> None]

dadd(q, e) == DRet(Append0(q, e), TRUE)
\* addFirst and addLast have no return statement
daddFirst(q, e) == DRet(Insert0(q, e), None)
daddLast(q, e) == DRet(Append0(q, e), None)

\* for item in collection: self.add(item)
RECURSIVE DAddEach(_, _)
DAddEach(q, s) == IF s = <<>> THEN q ELSE DAddEach(dadd(q, Head(s)).deque, Tail(s))

daddAll(q, s) == DRet(DAddEach(q, s), TRUE)

dcontains(q, o) == DRet(q, \E i \in DOMAIN q : q[i] = o)

\* mutant of getFirst: an empty deque answers None
dgetFirstNoRaise(q) == IF len(q) = 0 THEN DRet(q, None) ELSE DRet(q, q[0])

dgetFirst(q) == IF len(q) = 0 THEN DRaise(q, "IndexError") ELSE DRet(q, q[0])
dgetLast(q) == IF len(q) = 0 THEN DRaise(q, "IndexError") ELSE DRet(q, q[len(q) - 1])
delement(q) == dgetFirst(q)

doffer(q, e) == daddLast(q, e)
dofferFirst(q, e) == daddFirst(q, e)
dofferLast(q, e) == daddLast(q, e)

dpeekFirst(q) == IF len(q) # 0 THEN DRet(q, q[0]) ELSE DRet(q, None)
dpeekLast(q) == IF len(q) # 0 THEN DRet(q, q[len(q) - 1]) ELSE DRet(q, None)
dpeek(q) == dpeekFirst(q)

\* mutant of pollFirst: the emptiness test is missing and list.pop(0) raises
dpollFirstRaises(q) ==
    IF len(q) # 0 THEN DRet(Delete0(q, 0), q[0]) ELSE DRaise(q, "IndexError")

dpollFirst(q) == IF len(q) # 0 THEN DRet(Delete0(q, 0), q[0]) ELSE DRet(q, None)
dpollLast(q) ==
    IF len(q) # 0 THEN DRet(Delete0(q, len(q) - 1), q[len(q) - 1]) ELSE DRet(q, None)
dpoll(q) == dpollFirst(q)

dpop(q) == dpollFirst(q)
dpush(q, e) == DRet(daddFirst(q, e).deque, None)

\* remove(o=None): without an argument, or with None, the first element is polled
dremove(q, o) ==
    IF o = None THEN dpollFirst(q)
    ELSE LET k == Index0(q, o)
         IN  IF k = -1 THEN DRet(q, FALSE) ELSE DRet(Delete0(q, k), TRUE)

dremoveFirst(q) == dpollFirst(q)
dremoveLast(q) == dpollLast(q)
dremoveFirstOccurrence(q, o) == dremove(q, o)

\* index = len(q) - 1 - q[::-1].index(o); del q[index]
dremoveLastOccurrence(q, o) ==
    IF \E i \in DOMAIN q : q[i] = o
    THEN DRet(Delete0(q, len(q) - 1 - Index0([i \in DOMAIN q |-> q[len(q) - 1 - i]], o)),
              TRUE)
    ELSE DRet(q, FALSE)

dsize(q) == DRet(q, len(q))
dclear(q) == DRet(<<>>, None)
disEmpty(q) == DRet(q, len(q) = 0)

\* while item in self._deque: self._deque.remove(item)
RECURSIVE DRemoveEvery(_, _)
DRemoveEvery(q, item) ==
    IF \E i \in DOMAIN q : q[i] = item
    THEN DRemoveEvery(Delete0(q, Index0(q, item)), item)
    ELSE q

RECURSIVE DRemoveAllLoop(_, _)
DRemoveAllLoop(q, c) ==
    IF c = {} THEN q
    ELSE LET item == CHOOSE x \in c : TRUE
         IN  DRemoveAllLoop(DRemoveEvery(q, item), c \ {item})

dremoveAll(q, c) ==
    LET q1 == DRemoveAllLoop(q, c) IN DRet(q1, len(q1) # len(q))

\* the predicate is true of the values in p
dremoveIf(q, p) ==
    LET q1 == Filter0(q, Vals \ p) IN DRet(q1, len(q1) # len(q))

dretainAll(q, c) ==
    LET q1 == Filter0(q, c) IN DRet(q1, len(q1) # len(q))

(* ----------------------- ArrayDeque: the actions ------------------------ *)

NoDCall == [op |-> "none", e |-> None, c |-> {}, s |-> <<>>]
\* the capacities passed to ArrayDeque(initial)
DequeCaps == {0, 1, 2}

\* ArrayDeque(), ArrayDeque(collection), ArrayDeque(capacity)
\* ArrayDeque(), ArrayDeque(collection), and ArrayDeque(initial) with an int, which is
\* recorded as the pending call
InitD ==
    /\ dkind = "ArrayDeque"
    /\ \/ /\ \/ deque = <<>>
             \/ \E s \in Seeds : deque = DAddEach(<<>>, s)
          /\ dcall = NoDCall
       \/ \E initial \in DequeCaps :
              /\ deque = NoneList(initial)
              /\ dcall = [NoDCall EXCEPT !.op = "init", !.e = initial]
    /\ dold = <<>>
    /\ dout = NoOut

DDoes(c, r) ==
    /\ dkind = "ArrayDeque"
    /\ dcall.op = "none"
    /\ len(r.deque) <= MaxDeque
    /\ deque' = r.deque
    /\ dcall' = c
    /\ dold' = deque
    /\ dout' = [exc |-> r.exc, ret |-> r.ret]
    /\ UNCHANGED <<dkind, vvars, qvars, cvars>>

DReturn ==
    /\ dcall.op # "none"
    /\ dcall' = NoDCall
    /\ dold' = <<>>
    /\ dout' = NoOut
    /\ UNCHANGED <<deque, dkind, vvars, qvars, cvars>>

DAdd == \E e \in Vals : DDoes([NoDCall EXCEPT !.op = "add", !.e = e], dadd(deque, e))

DAddFirst ==
    \E e \in Vals : DDoes([NoDCall EXCEPT !.op = "addFirst", !.e = e], daddFirst(deque, e))

DAddLast ==
    \E e \in Vals : DDoes([NoDCall EXCEPT !.op = "addLast", !.e = e], daddLast(deque, e))

DAddAll ==
    \E s \in Seeds : DDoes([NoDCall EXCEPT !.op = "addAll", !.s = s], daddAll(deque, s))

DContains ==
    \E o \in Vals : DDoes([NoDCall EXCEPT !.op = "contains", !.e = o], dcontains(deque, o))

DElement == DDoes([NoDCall EXCEPT !.op = "element"], delement(deque))
DGetFirst == DDoes([NoDCall EXCEPT !.op = "getFirst"], dgetFirst(deque))
DGetLast == DDoes([NoDCall EXCEPT !.op = "getLast"], dgetLast(deque))

DOffer == \E e \in Vals : DDoes([NoDCall EXCEPT !.op = "offer", !.e = e], doffer(deque, e))

DOfferFirst ==
    \E e \in Vals :
        DDoes([NoDCall EXCEPT !.op = "offerFirst", !.e = e], dofferFirst(deque, e))

DOfferLast ==
    \E e \in Vals :
        DDoes([NoDCall EXCEPT !.op = "offerLast", !.e = e], dofferLast(deque, e))

DPeek == DDoes([NoDCall EXCEPT !.op = "peek"], dpeek(deque))
DPeekFirst == DDoes([NoDCall EXCEPT !.op = "peekFirst"], dpeekFirst(deque))
DPeekLast == DDoes([NoDCall EXCEPT !.op = "peekLast"], dpeekLast(deque))
DPoll == DDoes([NoDCall EXCEPT !.op = "poll"], dpoll(deque))
DPollFirst == DDoes([NoDCall EXCEPT !.op = "pollFirst"], dpollFirst(deque))
DPollLast == DDoes([NoDCall EXCEPT !.op = "pollLast"], dpollLast(deque))
DPop == DDoes([NoDCall EXCEPT !.op = "pop"], dpop(deque))

DPush == \E e \in Vals : DDoes([NoDCall EXCEPT !.op = "push", !.e = e], dpush(deque, e))

\* remove() and remove(o)
DRemove ==
    \E o \in Vals : DDoes([NoDCall EXCEPT !.op = "remove", !.e = o], dremove(deque, o))

DRemoveFirst == DDoes([NoDCall EXCEPT !.op = "removeFirst"], dremoveFirst(deque))
DRemoveLast == DDoes([NoDCall EXCEPT !.op = "removeLast"], dremoveLast(deque))

DRemoveFirstOccurrence ==
    \E o \in Vals :
        DDoes([NoDCall EXCEPT !.op = "removeFirstOccurrence", !.e = o],
              dremoveFirstOccurrence(deque, o))

DRemoveLastOccurrence ==
    \E o \in Vals :
        DDoes([NoDCall EXCEPT !.op = "removeLastOccurrence", !.e = o],
              dremoveLastOccurrence(deque, o))

DSize == DDoes([NoDCall EXCEPT !.op = "size"], dsize(deque))
DClear == DDoes([NoDCall EXCEPT !.op = "clear"], dclear(deque))
DIsEmpty == DDoes([NoDCall EXCEPT !.op = "isEmpty"], disEmpty(deque))

DRemoveAll ==
    \E c \in SUBSET Vals :
        DDoes([NoDCall EXCEPT !.op = "removeAll", !.c = c], dremoveAll(deque, c))

DRemoveIf ==
    \E p \in SUBSET Vals :
        DDoes([NoDCall EXCEPT !.op = "removeIf", !.c = p], dremoveIf(deque, p))

DRetainAll ==
    \E c \in SUBSET Vals :
        DDoes([NoDCall EXCEPT !.op = "retainAll", !.c = c], dretainAll(deque, c))

NextD ==
    \/ DAdd \/ DAddFirst \/ DAddLast \/ DAddAll \/ DContains
    \/ DElement \/ DGetFirst \/ DGetLast \/ DOffer \/ DOfferFirst \/ DOfferLast
    \/ DPeek \/ DPeekFirst \/ DPeekLast \/ DPoll \/ DPollFirst \/ DPollLast
    \/ DPop \/ DPush \/ DRemove \/ DRemoveFirst \/ DRemoveLast
    \/ DRemoveFirstOccurrence \/ DRemoveLastOccurrence
    \/ DSize \/ DClear \/ DIsEmpty \/ DRemoveAll \/ DRemoveIf \/ DRetainAll
    \/ DReturn

(* ------------------- Vector: subList and clone copies ------------------ *)
(* A program holds a Vector (vec) and one object obtained from it (copy):  *)
(* the Vector returned by clone(), or the list returned by subList().      *)
(* Either object is then mutated.  Two Python names may denote one list    *)
(* object: copy.alias says that the copy's list is the Vector's buffer (a  *)
(* clone) or a window onto it (a sublist), in which case an assignment to  *)
(* a slot through one name is seen through the other, until one of the     *)
(* two rebinds its name to a new list.  touched records which object the   *)
(* last step acted on and what the other one held before that step.       *)

\* the values written in these programs
CopyVals == {None, 1}
\* the capacities and capacity increments the Vector is constructed with
CopyCaps == {0, 2}
CopyIncs == {0, 1}

\* a[lo:hi] taken as a window onto the list a
sliceView(a, lo, hi) == [list |-> ListOf(Slice(a, lo, hi)), alias |-> TRUE]
\* a[lo:hi] is a new list object holding the elements a[lo], ..., a[hi - 1]
slice(a, lo, hi) == [list |-> ListOf(Slice(a, lo, hi)), alias |-> FALSE]
\* a + b is a new list object
Concat0(a, b) == [i \in 0..(len(a) + len(b) - 1) |-> IF i < len(a) THEN a[i] ELSE b[i - len(a)]]

\* a clone that is handed the buffer itself
cloneShared(d, n, k) ==
    [elementData |-> d, elementCount |-> n, capacityIncrement |-> k, alias |-> TRUE]
\* clone(): Vector(len(elementData), capacityIncrement) with elementData bound to
\* elementData[:elementCount] + [None] * (len(elementData) - elementCount)
clone(d, n, k) ==
    LET s == slice(d, 0, n)
    IN  [elementData |-> Concat0(s.list, NoneList(len(d) - n)),
         elementCount |-> n,
         capacityIncrement |-> k,
         alias |-> FALSE]

\* what a call leaves of the store
Store(r) == [elementData |-> r.elementData, elementCount |-> r.elementCount]

\* the stores the mutating calls of a Vector can leave
Mutations(d, n, k) ==
    {Store(add1(d, n, k, e)) : e \in CopyVals}
    \cup {Store(addElement(d, n, k, e)) : e \in CopyVals}
    \cup {Store(add2(d, n, k, i, e)) : i \in 0..n, e \in CopyVals}
    \cup {Store(addAll1(d, n, k, <<e, e>>)) : e \in CopyVals}
    \cup {Store(removeAt(d, n, i)) : i \in 0..(n - 1)}
    \cup {Store(removeElement(d, n, e)) : e \in CopyVals}
    \cup {Store(removeAll(d, n, c)) : c \in SUBSET CopyVals}
    \cup {Store(retainAll(d, n, c)) : c \in SUBSET CopyVals}
    \cup {Store(removeIf(d, n, c)) : c \in SUBSET CopyVals}
    \cup {Store(set(d, n, i, e)) : i \in 0..(n - 1), e \in CopyVals}
    \cup {Store(setElementAt(d, n, k, e, i)) : i \in 0..n, e \in CopyVals}
    \cup {Store(setSize(d, n, k, m)) : m \in 0..(n + 1)}
    \cup {Store(Ret(ensureCapacity(d, n, k, m), n, None)) : m \in 0..(n + 2)}
    \cup {Store(clear(d, n)), Store(trimToSize(d, n)), Store(sort(d, n, "neg"))}

\* the lists the mutating calls of a Python list can leave: l[i] = v, l.append(v),
\* del l[i], l.clear()
ListMutations(l) ==
    {[l EXCEPT ![i] = v] : i \in DOMAIN l, v \in CopyVals}
    \cup {Append0(l, v) : v \in CopyVals}
    \cup {Delete0(l, i) : i \in DOMAIN l}
    \cup {<<>>}

NoCopy == [kind |-> "none", elementData |-> <<>>, elementCount |-> 0,
           capacityIncrement |-> 0, alias |-> FALSE, from |-> 0, to |-> 0]
NoLast == [side |-> "none", kept |-> Store(NoCopy)]

\* Vector(initialCapacity, capacityIncrement)
InitC ==
    /\ \E c \in CopyCaps, k \in CopyIncs :
           vec = [elementData |-> NoneList(c), elementCount |-> 0,
                  capacityIncrement |-> k]
    /\ copy = NoCopy
    /\ touched = NoLast

\* a store is bound to a name: the list assigned through one name shows through the
\* other when they alias and no new list was allocated
Through(mine, other, alias, d) ==
    IF alias /\ len(d) = len(mine) THEN d ELSE other

\* a mutating call on vec
VecMutate ==
    \E r \in Mutations(vec.elementData, vec.elementCount, vec.capacityIncrement) :
        /\ r.elementCount <= MaxCopyLen
        /\ vec' = [vec EXCEPT !.elementData = r.elementData,
                              !.elementCount = r.elementCount]
        /\ copy' =
               IF copy.kind = "clone"
               THEN [copy EXCEPT
                        !.elementData = Through(vec.elementData, @, copy.alias,
                                                r.elementData),
                        !.alias = @ /\ len(r.elementData) = len(vec.elementData)]
               ELSE IF copy.kind = "subList" /\ copy.alias
                       /\ len(r.elementData) = len(vec.elementData)
               THEN [copy EXCEPT
                        !.elementData = [i \in DOMAIN @ |-> r.elementData[copy.from + i]]]
               ELSE IF copy.kind = "subList" THEN [copy EXCEPT !.alias = FALSE]
               ELSE copy
        /\ touched' = IF copy.kind = "none" THEN NoLast
                   ELSE [side |-> "vec", kept |-> Store(copy)]
        /\ UNCHANGED <<vvars, qvars, dvars>>

\* cloned_vector = vec.clone()
Clone ==
    /\ copy.kind = "none"
    /\ LET c == clone(vec.elementData, vec.elementCount, vec.capacityIncrement)
       IN  copy' = [NoCopy EXCEPT !.kind = "clone",
                                  !.elementData = c.elementData,
                                  !.elementCount = c.elementCount,
                                  !.capacityIncrement = c.capacityIncrement,
                                  !.alias = c.alias]
    /\ touched' = [side |-> "made", kept |-> Store(vec)]
    /\ UNCHANGED <<vec, vvars, qvars, dvars>>

\* sub = vec.subList(fromIndex, toIndex), with indices that do not raise
CSubList ==
    /\ copy.kind = "none"
    /\ \E fromIndex \in 0..vec.elementCount, toIndex \in 0..vec.elementCount :
           /\ subList(vec.elementData, vec.elementCount, fromIndex, toIndex).exc = "none"
           /\ LET s == slice(vec.elementData, fromIndex, toIndex)
              IN  copy' = [NoCopy EXCEPT !.kind = "subList",
                                         !.elementData = s.list,
                                         !.elementCount = len(s.list),
                                         !.alias = s.alias,
                                         !.from = fromIndex,
                                         !.to = toIndex]
    /\ touched' = [side |-> "made", kept |-> Store(vec)]
    /\ UNCHANGED <<vec, vvars, qvars, dvars>>

\* a mutating call on the clone
CloneMutate ==
    /\ copy.kind = "clone"
    /\ \E r \in Mutations(copy.elementData, copy.elementCount, copy.capacityIncrement) :
           /\ r.elementCount <= MaxCopyLen
           /\ copy' = [copy EXCEPT
                          !.elementData = r.elementData,
                          !.elementCount = r.elementCount,
                          !.alias = @ /\ len(r.elementData) = len(copy.elementData)]
           /\ vec' = [vec EXCEPT
                         !.elementData = Through(copy.elementData, @, copy.alias,
                                                 r.elementData)]
    /\ touched' = [side |-> "copy", kept |-> Store(vec)]
    /\ UNCHANGED <<vvars, qvars, dvars>>

\* a mutating call on the list that subList returned
SubListMutate ==
    /\ copy.kind = "subList"
    /\ \E l \in ListMutations(copy.elementData) :
           /\ len(l) <= MaxCopyLen
           /\ copy' = [copy EXCEPT
                          !.elementData = l,
                          !.elementCount = len(l),
                          !.alias = @ /\ len(l) = len(copy.elementData)]
           /\ vec' = IF copy.alias /\ len(l) = len(copy.elementData)
                     THEN [vec EXCEPT
                              !.elementData =
                                  [i \in DOMAIN @ |->
                                      IF i - copy.from \in DOMAIN l
                                      THEN l[i - copy.from] ELSE @[i]]]
                     ELSE vec
    /\ touched' = [side |-> "copy", kept |-> Store(vec)]
    /\ UNCHANGED <<vvars, qvars, dvars>>

\* the copy goes out of use
Discard ==
    /\ copy.kind # "none"
    /\ copy' = NoCopy
    /\ touched' = NoLast
    /\ UNCHANGED <<vec, vvars, qvars, dvars>>

NextC == VecMutate \/ Clone \/ CSubList \/ CloneMutate \/ SubListMutate \/ Discard

(* --------------------------- specifications ---------------------------- *)

\* no PriorityQueue is in use
IdleQ ==
    /\ heap = <<>>
    /\ comparator = "None"
    /\ qcall = NoQCall
    /\ qold = <<>>
    /\ qout = NoOut

\* no Vector is in use
IdleV ==
    /\ elementData = <<>>
    /\ elementCount = 0
    /\ capacityIncrement = 0
    /\ kind = "Vector"
    /\ call = NoCall
    /\ old = NoOld
    /\ out = NoOut
    /\ trip = NoTrip
    /\ hist = NoHist

\* no ArrayDeque was constructed
IdleD ==
    /\ deque = <<>>
    /\ dkind = "none"
    /\ dcall = NoDCall
    /\ dold = <<>>
    /\ dout = NoOut

\* no Vector is being copied
IdleC ==
    /\ vec = [elementData |-> <<>>, elementCount |-> 0, capacityIncrement |-> 0]
    /\ copy = NoCopy
    /\ touched = NoLast

Init == InitV /\ InitQ /\ InitD /\ InitC
Next == NextV \/ NextQ \/ NextD \/ NextC
Spec == Init /\ [][Next]_vars

\* a program that uses one Vector (or Stack)
InitVector == InitV /\ IdleQ /\ IdleD /\ IdleC
SpecVector == InitVector /\ [][NextV]_vars
\* a program that uses one PriorityQueue
InitPQ == InitQ /\ IdleV /\ IdleD /\ IdleC
SpecPQ == InitPQ /\ [][NextQ]_vars
\* a program that uses one ArrayDeque
InitDeque == InitD /\ IdleV /\ IdleQ /\ IdleC
SpecDeque == InitDeque /\ [][NextD]_vars
\* a program that uses one queue: an ArrayDeque or, when it constructed none, a
\* PriorityQueue
InitQueues == ((InitD /\ IdleQ) \/ (InitQ /\ IdleD)) /\ IdleV /\ IdleC
NextQueues == NextD \/ (dkind = "none" /\ NextQ)
SpecQueues == InitQueues /\ [][NextQueues]_vars
\* a program that copies a Vector, with clone() or subList()
InitCopies == InitC /\ IdleV /\ IdleQ /\ IdleD
SpecCopies == InitCopies /\ [][NextC]_vars

(* ------------------------------ claims --------------------------------- *)

\* the store before the pending call
oldData == old.elementData
oldCount == old.elementCount
Called(ops) == call.op \in ops
Returned == out.exc = "none"

\* C1: after every Vector call, whether it returned or raised,
\* 0 <= elementCount <= len(elementData).
C1_LengthWithinCapacity ==
    0 <= elementCount /\ elementCount <= len(elementData)

\* C1 witness: a call that raised after it had removed an element.
C1_Witness ==
    /\ Called({"retainAll"})
    /\ out.exc = "IndexError"
    /\ elementCount < oldCount

\* C2: a Vector or Stack call that raises leaves the live sequence, the length and
\* the capacity exactly as they were before the call.
C2_RaiseLeavesStoreUnchanged ==
    ~Returned =>
        /\ elementCount = oldCount
        /\ Live(elementData, elementCount) = Live(oldData, oldCount)
        /\ len(elementData) = len(oldData)

\* C7: add(i, e) with 0 <= i <= n returns with length n + 1, e at index i, every
\* element that was at j in [i, n) now at j + 1, and every element below i unchanged.
C7_AddAtIndexShifts ==
    (Called({"add2"}) /\ 0 <= call.i /\ call.i <= oldCount) =>
        /\ Returned
        /\ elementCount = oldCount + 1
        /\ elementData[call.i] = call.e
        /\ \A j \in call.i..(oldCount - 1) : elementData[j + 1] = oldData[j]
        /\ \A j \in 0..(call.i - 1) : elementData[j] = oldData[j]

\* C7 witness: an insert at the front of a store whose first two elements differ.
C7_Witness ==
    /\ Called({"add2"}) /\ Returned
    /\ call.i = 0
    /\ oldCount >= 2
    /\ oldData[0] # oldData[1]

IndexCalls == {"get", "set", "remove", "removeElementAt"}

\* C8: get, set and remove-at-index raise IndexError exactly when i < 0 or
\* i >= length; add(i, e) raises exactly when i < 0 or i > length, and add(length, e)
\* leaves the store append(e) leaves; subList(f, t) raises exactly when
\* 0 <= f <= t <= length fails; a call that raises leaves the store untouched.
C8_IndexNeverClamped ==
    /\ Called(IndexCalls) =>
           (out.exc = "IndexError" <=> (call.i < 0 \/ call.i >= oldCount))
    /\ Called({"add2"}) =>
           (out.exc = "IndexError" <=> (call.i < 0 \/ call.i > oldCount))
    /\ (Called({"add2"}) /\ call.i = oldCount) =>
           LET r == add1(oldData, oldCount, capacityIncrement, call.e)
           IN  elementData = r.elementData /\ elementCount = r.elementCount
    /\ Called({"subList"}) =>
           (out.exc = "IndexError" <=>
                ~(0 <= call.i /\ call.i <= call.j /\ call.j <= oldCount))
    /\ (Called(IndexCalls \cup {"add2", "subList"}) /\ ~Returned) =>
           (out.exc = "IndexError" /\ elementData = oldData /\ elementCount = oldCount)

\* C8 witness: get(length) on a non-empty store with spare capacity raised.
C8_Witness ==
    /\ Called({"get"})
    /\ call.i = oldCount
    /\ oldCount > 0
    /\ len(oldData) > oldCount
    /\ out.exc = "IndexError"

\* C9: remove-at-index with 0 <= i < length returns the element that was at i, moves
\* every element at j in [i + 1, length) to j - 1, sets the slot at the old
\* length - 1 to None, decrements the length, and leaves the capacity and the
\* elements below i unchanged.
C9_RemoveAtIndexShifts ==
    (Called({"remove", "removeElementAt"}) /\ 0 <= call.i /\ call.i < oldCount) =>
        /\ Returned
        /\ out.ret = oldData[call.i]
        /\ \A j \in (call.i + 1)..(oldCount - 1) : elementData[j - 1] = oldData[j]
        /\ elementData[oldCount - 1] = None
        /\ elementCount = oldCount - 1
        /\ len(elementData) = len(oldData)
        /\ \A j \in 0..(call.i - 1) : elementData[j] = oldData[j]

\* C9 witness: the first of three elements, not all equal, was removed.
C9_Witness ==
    /\ Called({"remove", "removeElementAt"}) /\ Returned
    /\ call.i = 0
    /\ oldCount >= 3
    /\ oldData[1] # oldData[2]
    /\ oldData[2] # None

\* C10: v = remove-at-index(i) followed by add(i, v) restores the live sequence and
\* the length, and the capacity has not shrunk.
C10_RemoveThenAddRestores ==
    trip.phase = 2 =>
        /\ Live(elementData, elementCount) = trip.seq
        /\ elementCount = Len(trip.seq)
        /\ len(elementData) >= len(oldData)

\* C10 witness: the round trip was made at a middle index of three differing elements.
C10_Witness ==
    /\ trip.phase = 2
    /\ Len(trip.seq) >= 3
    /\ trip.i = 1
    /\ trip.seq[1] # trip.seq[2]
    /\ trip.seq[2] # trip.seq[3]

Max(a, b) == IF a >= b THEN a ELSE b

\* C11: ensureCapacity(min) changes nothing when min <= capacity; when
\* min > capacity the new capacity is max(capacity + capacityIncrement, min) with
\* capacityIncrement > 0 and max(2 * capacity, min) with capacityIncrement 0; the
\* length never changes.
C11_EnsureCapacityGrowth ==
    Called({"ensureCapacity"}) =>
        /\ Returned
        /\ elementCount = oldCount
        /\ call.i <= len(oldData) => elementData = oldData
        /\ call.i > len(oldData) =>
               len(elementData) =
                   IF capacityIncrement > 0
                   THEN Max(len(oldData) + capacityIncrement, call.i)
                   ELSE Max(2 * len(oldData), call.i)

\* C11 witness: ensureCapacity(min) grew a buffer past min, by its increment.
C11_Witness ==
    /\ Called({"ensureCapacity"})
    /\ capacityIncrement > 0
    /\ call.i > len(oldData)
    /\ len(elementData) > call.i

GrowOps == {"ensureCapacity", "add1", "add2", "addElement", "addAll1", "addAll2",
            "setSize", "setElementAt"}
\* the pending call allocated a larger buffer
Grew == len(elementData) > len(oldData)
\* where the pending call inserted, and how many elements: add(i, e) and
\* addAll(i, c) insert at i, every other call writes at or behind the old length
InsertAt == IF Called({"add2", "addAll2"}) THEN call.i ELSE oldCount
Inserted == IF Called({"add2"}) THEN 1 ELSE Len(call.s)

\* C12: when ensureCapacity, add, addElement, addAll, setSize or setElementAt grows
\* the buffer, every element that was live before the call is still there, in the
\* same order: at its old index, or (behind an insertion point) moved up by the
\* number of elements inserted.
C12_GrowthKeepsElements ==
    (Called(GrowOps) /\ Grew) =>
        /\ Returned
        /\ \A j \in 0..(oldCount - 1) :
               elementData[IF j < InsertAt THEN j ELSE j + Inserted] = oldData[j]

\* C12 witness: an insertion below the top of a full store of differing elements
\* grew the buffer.
C12_Witness ==
    /\ Called({"add2", "addAll2"}) /\ Grew
    /\ oldCount >= 2
    /\ call.i < oldCount
    /\ oldData[0] # oldData[1]
    /\ oldData[1] # None

\* C13: in every reachable state add(e) and addElement(e) return, having grown the
\* buffer if the length was the capacity, stored e at the old length, raised the
\* length by one and left the earlier elements as they were.
C13_AppendStores ==
    Called({"add1", "addElement"}) =>
        /\ Returned
        /\ oldCount = len(oldData) => Grew
        /\ elementCount = oldCount + 1
        /\ elementData[oldCount] = call.e
        /\ \A j \in 0..(oldCount - 1) : elementData[j] = oldData[j]

\* C14: a Vector created with capacity c >= 1 that has received c + 1 appends
\* (add(e) or addElement(e)) and nothing else but reads has length c + 1; its
\* capacity is at least 2c when capacityIncrement is 0 and is c + capacityIncrement
\* when it is positive; get(0), ..., get(c) return the appended elements in the
\* order they were appended.
C14_GrowthScenario ==
    (kind = "Vector" /\ hist.valid /\ hist.c0 >= 1 /\ Len(hist.seq) = hist.c0 + 1) =>
        /\ elementCount = hist.c0 + 1
        /\ capacityIncrement = 0 => len(elementData) >= 2 * hist.c0
        /\ capacityIncrement > 0 => len(elementData) = hist.c0 + capacityIncrement
        /\ \A i \in 0..hist.c0 :
               LET r == get(elementData, elementCount, i)
               IN  r.exc = "none" /\ r.ret = hist.seq[i + 1]

\* C14 witness: the spec's instance, capacity 2 and increment 0, just after the
\* third append, of elements that are not all the same.
C14_Witness ==
    /\ kind = "Vector" /\ hist.valid
    /\ hist.c0 = 2 /\ capacityIncrement = 0
    /\ Called({"add1", "addElement"}) /\ Returned
    /\ Len(hist.seq) = 3
    /\ hist.seq[1] # hist.seq[2]
    /\ hist.seq[2] # hist.seq[3]

\* C15: set(i, e) with 0 <= i < length returns the value that was at i, makes
\* get(i) return e, and leaves every other slot, the length and the capacity as they
\* were; get(i) never changes the store.
C15_SetReturnsPrior ==
    /\ (Called({"set"}) /\ 0 <= call.i /\ call.i < oldCount) =>
           /\ Returned
           /\ out.ret = oldData[call.i]
           /\ get(elementData, elementCount, call.i).exc = "none"
           /\ get(elementData, elementCount, call.i).ret = call.e
           /\ DOMAIN elementData = DOMAIN oldData
           /\ \A j \in DOMAIN oldData \ {call.i} : elementData[j] = oldData[j]
           /\ elementCount = oldCount
    /\ Called({"get"}) => (elementData = oldData /\ elementCount = oldCount)

\* C15 witness: set(i, e) replaced an element by a different one, in a store of
\* several elements.
C15_Witness ==
    /\ Called({"set"}) /\ Returned
    /\ oldCount >= 2
    /\ oldData[call.i] # call.e
    /\ oldData[call.i] # None

\* the elements of the sequence s that are in the set c, in their order
Members(s, c) == SelectSeq(s, LAMBDA x : x \in c)

\* C16: retainAll(c) returns, for every store and every collection c, leaving
\* exactly the elements of the prior sequence that are in c, in their order, and
\* returns True exactly when an element was removed.
C16_RetainAllKeepsMembers ==
    Called({"retainAll"}) =>
        /\ Returned
        /\ Live(elementData, elementCount) = Members(Live(oldData, oldCount), call.c)
        /\ out.ret = (\E j \in 0..(oldCount - 1) : oldData[j] \notin call.c)

\* C17: removeIf(p) leaves exactly the elements of the prior sequence of which p is
\* false, in their order, with the length reduced by the number removed and the
\* capacity unchanged, and returns True exactly when an element was removed.
C17_RemoveIfKeepsOthers ==
    Called({"removeIf"}) =>
        /\ Returned
        /\ Live(elementData, elementCount) =
               Members(Live(oldData, oldCount), Vals \ call.c)
        /\ elementCount =
               oldCount - Cardinality({j \in 0..(oldCount - 1) : oldData[j] \in call.c})
        /\ len(elementData) = len(oldData)
        /\ out.ret = (\E j \in 0..(oldCount - 1) : oldData[j] \in call.c)

\* C17 witness: removeIf removed two neighbours and kept a later element.
C17_Witness ==
    /\ Called({"removeIf"}) /\ Returned
    /\ oldCount >= 3
    /\ oldData[0] \in call.c /\ oldData[1] \in call.c
    /\ oldData[2] \notin call.c

\* the value a removal by value was asked to remove: remove(o) with an integer o,
\* remove(o) with another o, removeElement(o)
ByValueCalls == {"remove", "removeValue", "removeElement"}
ValueArg == IF Called({"remove"}) THEN call.i ELSE call.e
\* the first index of the prior sequence holding o, or -1
FirstAt(o) ==
    IF \E i \in 0..(oldCount - 1) : oldData[i] = o
    THEN CHOOSE i \in 0..(oldCount - 1) :
             oldData[i] = o /\ \A j \in 0..(i - 1) : oldData[j] # o
    ELSE -1
\* the call returned True (remove with an integer returns an element, which is
\* taken for True when it is truthy) or False
ReturnedTrue == IF Called({"remove"}) THEN out.ret # 0 ELSE out.ret = TRUE
ReturnedFalse == IF Called({"remove"}) THEN out.ret = 0 ELSE out.ret = FALSE

RECURSIVE PopAll(_, _)
PopAll(d, n) ==
    IF n = 0 THEN <<>>
    ELSE LET r == pop(d, n) IN <<r.ret>> \o PopAll(r.elementData, r.elementCount)

Reverse(s) == [j \in 1..Len(s) |-> s[Len(s) + 1 - j]]

\* C19: on a Stack that has only been pushed to and popped from, pop() returns the
\* most recently pushed element not yet popped and removes it (it raises when there
\* is none), so that popping everything yields the pushed elements in reverse;
\* peek() returns what the next pop() would return and changes nothing.
C19_StackLIFO ==
    /\ (kind = "Stack" /\ hist.valid) =>
           /\ Live(elementData, elementCount) = hist.seq
           /\ PopAll(elementData, elementCount) = Reverse(hist.seq)
           /\ Called({"pop"}) =>
                  IF hist.top = <<>> THEN out.exc = "IndexError"
                  ELSE Returned /\ out.ret = hist.top[1]
    /\ Called({"peek"}) =>
           LET r == pop(elementData, elementCount)
           IN  /\ elementData = oldData /\ elementCount = oldCount
               /\ out.exc = r.exc /\ out.ret = r.ret

\* C19 witness: after pushes a, b, c with a # b and b # c, the first pop.
C19_Witness ==
    /\ kind = "Stack" /\ hist.valid
    /\ Called({"pop"}) /\ Returned
    /\ Len(hist.seq) = 2
    /\ hist.seq[1] # hist.seq[2]
    /\ hist.seq[2] # hist.top[1]

\* C20: search(o) returns size - k for the largest index k holding an element equal
\* to o (1 for the top element; among duplicates the one closest to the top counts),
\* returns -1 when no element equals o, and never changes the stack.
C20_SearchFromTop ==
    Called({"search"}) =>
        /\ Returned
        /\ elementData = oldData /\ elementCount = oldCount
        /\ IF \E k \in 0..(oldCount - 1) : oldData[k] = call.e
           THEN \E k \in 0..(oldCount - 1) :
                    /\ oldData[k] = call.e
                    /\ \A j \in (k + 1)..(oldCount - 1) : oldData[j] # call.e
                    /\ out.ret = oldCount - k
           ELSE out.ret = -1

\* C20 witness: search(o) on a stack holding o twice, below a different top.
C20_Witness ==
    /\ Called({"search"}) /\ Returned
    /\ oldCount = 3
    /\ oldData[0] = call.e /\ oldData[1] = call.e
    /\ oldData[2] # call.e
    /\ call.e # None

\* C21: pop() and peek() on a Stack with no elements raise IndexError and leave the
\* length, the capacity and the contents as they were; on a Stack with elements
\* neither raises.
C21_EmptyStackRaises ==
    Called({"pop", "peek"}) =>
        IF oldCount = 0
        THEN /\ out.exc = "IndexError"
             /\ elementData = oldData
             /\ elementCount = oldCount
        ELSE Returned

\* C21 witness: peek() raised on a stack that is empty and has a buffer.
C21_Witness ==
    /\ Called({"peek"})
    /\ oldCount = 0
    /\ len(oldData) > 0
    /\ out.exc = "IndexError"

\* C22: in every Stack state reachable through the Stack's own and its inherited
\* Vector operations, push(e) returns e and raises the size by one, and peek() made
\* next returns e.
C22_PushThenPeek ==
    (kind = "Stack" /\ Called({"push"})) =>
        /\ Returned
        /\ out.ret = call.e
        /\ elementCount = oldCount + 1
        /\ peek(elementData, elementCount).exc = "none"
        /\ peek(elementData, elementCount).ret = call.e

\* C25: setSize(n) with n >= 0 ends with length n and a capacity that has not
\* shrunk; the first min(n, old length) elements are unchanged; with n > old length
\* the slots [old length, n) hold None; with n < old length the slots
\* [n, old length) are set to None.
C25_SetSizeSetsLength ==
    (Called({"setSize"}) /\ call.i >= 0) =>
        /\ Returned
        /\ elementCount = call.i
        /\ len(elementData) >= len(oldData)
        /\ \A j \in 0..(oldCount - 1) : j < call.i => elementData[j] = oldData[j]
        /\ \A j \in oldCount..(call.i - 1) : elementData[j] = None
        /\ \A j \in call.i..(oldCount - 1) : elementData[j] = None

\* C25 witness: setSize dropped an element and kept one.
C25_Witness ==
    /\ Called({"setSize"}) /\ Returned
    /\ 0 < call.i /\ call.i < oldCount
    /\ oldData[call.i] # None
    /\ oldData[0] # None

\* C26: after trimToSize() the capacity is the length, and the sequence and the
\* length are as before; add(e) made next, and made on any full buffer, returns
\* with a larger buffer, e at the old length and the earlier elements unchanged.
C26_TrimToSizeExact ==
    /\ Called({"trimToSize"}) =>
           /\ Returned
           /\ len(elementData) = elementCount
           /\ elementCount = oldCount
           /\ Live(elementData, elementCount) = Live(oldData, oldCount)
           /\ \A e \in Vals :
                  LET r == add1(elementData, elementCount, capacityIncrement, e)
                  IN  /\ r.exc = "none"
                      /\ len(r.elementData) > len(elementData)
                      /\ r.elementCount = elementCount + 1
                      /\ r.elementData[elementCount] = e
                      /\ \A j \in 0..(elementCount - 1) :
                             r.elementData[j] = elementData[j]
    /\ (Called({"add1"}) /\ oldCount = len(oldData)) =>
           /\ Returned /\ Grew
           /\ elementCount = oldCount + 1
           /\ elementData[oldCount] = call.e

\* C26 witness: trimToSize() on an empty store with a buffer, which leaves
\* capacity 0.
C26_Witness ==
    /\ Called({"trimToSize"}) /\ Returned
    /\ oldCount = 0
    /\ len(oldData) > 0

\* the ways to match the indices below n one to one
Perms(n) == {f \in [0..(n - 1) -> 0..(n - 1)] : \A i, j \in 0..(n - 1) : f[i] = f[j] => i = j}

\* C28: sort(key) leaves the live elements in non-decreasing key order; they are the
\* prior elements rearranged, elements of equal key in their prior relative order;
\* length, capacity and the slots from elementCount on are unchanged.  The call
\* raises only when a key cannot be computed or compared (None among the elements),
\* and then leaves the store as it was.
C28_SortStable ==
    Called({"sort"}) =>
        /\ elementCount = oldCount
        /\ len(elementData) = len(oldData)
        /\ \A i \in DOMAIN elementData : i >= elementCount => elementData[i] = oldData[i]
        /\ Returned =>
               /\ \A i, j \in 0..(elementCount - 1) :
                      i < j => KeyOf(call.s, elementData[i]) <= KeyOf(call.s, elementData[j])
               /\ \E f \in Perms(elementCount) :
                      /\ \A i \in 0..(elementCount - 1) : elementData[i] = oldData[f[i]]
                      /\ \A i, j \in 0..(elementCount - 1) :
                             (i < j /\ KeyOf(call.s, elementData[i]) = KeyOf(call.s, elementData[j]))
                                 => f[i] < f[j]
        /\ ~Returned =>
               /\ elementData = oldData
               /\ \E i \in 0..(oldCount - 1) : oldData[i] = None
\* C28 witness: sort returned after moving elements, and two different elements of
\* equal key are among them.
C28_Witness ==
    /\ Called({"sort"})
    /\ Returned
    /\ elementData # oldData
    /\ \E i, j \in 0..(elementCount - 1) :
           /\ i < j
           /\ elementData[i] # elementData[j]
           /\ KeyOf(call.s, elementData[i]) = KeyOf(call.s, elementData[j])

\* C38: in every reachable Vector state the slots from elementCount up to the
\* capacity hold None; so the slots that setSize or setElementAt bring below the
\* length, other than the one setElementAt writes, hold None.
C38_SpareSlotsAreNone ==
    /\ \A i \in DOMAIN elementData : i >= elementCount => elementData[i] = None
    /\ (Called({"setSize", "setElementAt"}) /\ Returned) =>
           \A i \in oldCount..(elementCount - 1) :
               (call.op = "setElementAt" /\ i = call.i) \/ elementData[i] = None
\* C38 witness: clear() returned on a Vector whose first element was not None.
C38_Witness ==
    /\ Called({"clear"})
    /\ Returned
    /\ oldCount > 0
    /\ oldData[0] # None
    /\ len(elementData) > 0

\* C39: no call other than trimToSize makes the buffer shorter: after every other
\* call, whether it returns or raises, the capacity is the prior one or larger.
C39_CapacityNeverShrinks ==
    (call.op # "none" /\ call.op # "trimToSize") => len(elementData) >= len(oldData)
\* C39 witness: a removal at an index returned, with one element less in the same
\* buffer length.
C39_Witness ==
    /\ Called({"removeElementAt"})
    /\ Returned
    /\ elementCount = oldCount - 1
    /\ len(oldData) > 1

\* C40: setElementAt(v, i) with i at or beyond the length returns: the buffer grows
\* when i is at or beyond the capacity and is otherwise kept, the length becomes
\* i + 1, slot i holds v, the elements below the old length are unchanged and the
\* slots from the old length up to i hold None.  With i < 0 it raises IndexError and
\* leaves the store as it was.
C40_SetElementAtExtends ==
    Called({"setElementAt"}) =>
        /\ call.i < 0 =>
               /\ out.exc = "IndexError"
               /\ elementData = oldData
               /\ elementCount = oldCount
        /\ call.i >= oldCount =>
               /\ Returned
               /\ elementCount = call.i + 1
               /\ len(elementData) > call.i
               /\ call.i < len(oldData) => len(elementData) = len(oldData)
               /\ elementData[call.i] = call.e
               /\ \A j \in 0..(oldCount - 1) : elementData[j] = oldData[j]
               /\ \A j \in oldCount..(call.i - 1) : elementData[j] = None
\* C40 witness: setElementAt returned for an index beyond the length and at or
\* beyond the capacity of a Vector that held an element.
C40_Witness ==
    /\ Called({"setElementAt"})
    /\ Returned
    /\ oldCount > 0
    /\ call.i > oldCount
    /\ call.i >= len(oldData)

\* the heap before the pending call; the element and the key of a heap entry
ElemOf(x) == I(x[Len(x)])
KeyQ(e) == IF comparator = "None" THEN e[1] ELSE KeyOf(comparator, e[1])
\* how many entries of h are x; how many hold the element e
Count(h, x) == Cardinality({i \in DOMAIN h : h[i] = x})
CountElem(h, e) == Cardinality({i \in DOMAIN h : ElemOf(h[i]) = e})
QCalled(ops) == qcall.op \in ops

\* the elements repeated poll() returns until the queue is empty
RECURSIVE Drain(_)
Drain(h) ==
    IF len(h) = 0 THEN <<>>
    ELSE LET r == qpoll(h, comparator) IN <<r.ret>> \o Drain(r.heap)

\* C3: poll() on a non-empty queue returns an element of minimal key among those
\* held and removes exactly one occurrence of it; polling a queue until it is empty
\* yields its elements in non-decreasing key order.
C3_PollReturnsMinimum ==
    /\ (QCalled({"poll"}) /\ len(qold) > 0) =>
           /\ CountElem(qold, qout.ret) > 0
           /\ \A i \in DOMAIN qold : KeyQ(qout.ret) <= KeyQ(ElemOf(qold[i]))
           /\ len(heap) = len(qold) - 1
           /\ \A e \in QElems :
                  CountElem(heap, e) =
                      CountElem(qold, e) - (IF e = qout.ret THEN 1 ELSE 0)
    /\ LET s == Drain(heap)
       IN  /\ Len(s) = len(heap)
           /\ \A j \in 1..(Len(s) - 1) : KeyQ(s[j]) <= KeyQ(s[j + 1])
           /\ \A e \in QElems :
                  Cardinality({j \in 1..Len(s) : s[j] = e}) = CountElem(heap, e)

\* C3 witness: poll() on a queue with a comparator that held three elements, not
\* all of one key.
C3_Witness ==
    /\ QCalled({"poll"})
    /\ comparator = "neg"
    /\ len(qold) >= 3
    /\ \E i \in DOMAIN qold : qold[i] # qold[0]

HeapOrdered(h) ==
    \A i \in DOMAIN h :
        \A c \in {2 * i + 1, 2 * i + 2} \cap DOMAIN h : ~Less(h[c], h[i])

\* C4: in every reachable PriorityQueue state the backing array is a binary
\* min-heap: heap[i] <= heap[2i+1] and heap[i] <= heap[2i+2] for every valid index.
C4_HeapProperty == HeapOrdered(heap)

\* C4 witness: remove(o) took an entry out of the array and left an array that is
\* no heap until it is rebuilt.
C4_Witness ==
    /\ QCalled({"remove"})
    /\ qout.ret = TRUE
    /\ ~HeapOrdered(Delete0(qold, Index0(qold, qcall.o)))

\* C5: remove(o) of an element o returns True exactly when o was held, with natural
\* ordering and with a comparator alike; then one occurrence of o is gone and the
\* size is one less; otherwise the queue is unchanged.
C5_RemoveFindsHeldElement ==
    (QCalled({"remove"}) /\ qcall.o \in QElems) =>
        /\ qout.ret = (CountElem(qold, qcall.o) > 0)
        /\ qout.ret =>
               /\ len(heap) = len(qold) - 1
               /\ \A e \in QElems :
                      CountElem(heap, e) =
                          CountElem(qold, e) - (IF e = qcall.o THEN 1 ELSE 0)
        /\ ~qout.ret => heap = qold

\* C6 as stated: after remove(o) returns True, contains(o) returns False.
C6_RemovedIsNotContained ==
    (QCalled({"remove"}) /\ qout.ret = TRUE) => ~qcontains(heap, qcall.o).ret

\* C6 amended: after remove(o) returns True, contains(o) returns False when the
\* queue held o once, and True when it held o more than once.
C6_RemovedOnceIsNotContained ==
    (QCalled({"remove"}) /\ qout.ret = TRUE) =>
        (qcontains(heap, qcall.o).ret <=> Count(qold, qcall.o) >= 2)

\* C6 witness: remove(o) returned True on a queue that held o once, among others.
C6_Witness ==
    /\ QCalled({"remove"})
    /\ qout.ret = TRUE
    /\ Count(qold, qcall.o) = 1
    /\ len(qold) >= 3

DCalled(ops) == dcall.op \in ops
DReturned == dout.exc = "none"
\* the last element of a non-empty list
Last0(q) == q[len(q) - 1]

\* C23: on an empty ArrayDeque peekFirst, peekLast, peek, pollFirst, pollLast and
\* poll return None without raising and leave the deque empty; on an empty
\* PriorityQueue peek and poll return None without raising.  On a non-empty
\* ArrayDeque pollFirst (poll) and pollLast return and remove the first and the last
\* element, and peekFirst (peek) and peekLast return it and remove nothing.
C23_EmptyQueueAnswersNone ==
    /\ (DCalled({"peekFirst", "peekLast", "peek", "pollFirst", "pollLast", "poll"})
            /\ len(dold) = 0) =>
           (DReturned /\ dout.ret = None /\ len(deque) = 0)
    /\ (QCalled({"peek", "poll"}) /\ len(qold) = 0) =>
           (qout.exc = "none" /\ qout.ret = I(None) /\ len(heap) = 0)
    /\ (DCalled({"pollFirst", "poll"}) /\ len(dold) > 0) =>
           /\ DReturned /\ dout.ret = dold[0]
           /\ len(deque) = len(dold) - 1
           /\ \A i \in DOMAIN deque : deque[i] = dold[i + 1]
    /\ (DCalled({"pollLast"}) /\ len(dold) > 0) =>
           /\ DReturned /\ dout.ret = Last0(dold)
           /\ len(deque) = len(dold) - 1
           /\ \A i \in DOMAIN deque : deque[i] = dold[i]
    /\ (DCalled({"peekFirst", "peek"}) /\ len(dold) > 0) =>
           (DReturned /\ dout.ret = dold[0] /\ deque = dold)
    /\ (DCalled({"peekLast"}) /\ len(dold) > 0) =>
           (DReturned /\ dout.ret = Last0(dold) /\ deque = dold)

\* C23 witness: poll() returned on an empty deque.
C23_Witness ==
    /\ DCalled({"poll", "pollFirst"})
    /\ len(dold) = 0
    /\ DReturned

\* C24: element(), getFirst() and getLast() on an ArrayDeque without elements, and
\* element() on an empty PriorityQueue, raise IndexError and leave the container
\* unchanged; on a container with elements they return the head (getLast: the
\* tail) and remove nothing.
C24_EmptyQueueRaises ==
    /\ DCalled({"element", "getFirst", "getLast"}) =>
           /\ deque = dold
           /\ IF len(dold) = 0 THEN dout.exc = "IndexError"
              ELSE /\ DReturned
                   /\ dout.ret = IF DCalled({"getLast"}) THEN Last0(dold) ELSE dold[0]
    /\ QCalled({"element"}) =>
           /\ heap = qold
           /\ IF len(qold) = 0 THEN qout.exc = "IndexError"
              ELSE /\ qout.exc = "none"
                   /\ qout.ret = ElemOf(qold[0])
                   /\ qout.ret = qpoll(qold, comparator).ret

\* C24 witness: getLast() on a deque whose first and last element differ.
C24_Witness ==
    /\ DCalled({"getLast"}) /\ DReturned
    /\ len(dold) >= 2
    /\ dold[0] # Last0(dold)

\* the sequence, the length and the capacity of a store are those of another
SameVector(a, b) ==
    /\ a.elementCount = b.elementCount
    /\ len(a.elementData) = len(b.elementData)
    /\ Live(a.elementData, a.elementCount) = Live(b.elementData, b.elementCount)

C29_CloneIndependent ==
    copy.kind = "clone" =>
        /\ touched.side = "made" =>
               /\ Store(vec) = touched.kept
               /\ SameVector(copy, vec)
               /\ copy.capacityIncrement = vec.capacityIncrement
        /\ touched.side = "vec" => SameVector(copy, touched.kept)
        /\ touched.side = "copy" => SameVector(vec, touched.kept)
\* C29 witness: the clone of a non-empty Vector was mutated and now holds another
\* sequence than its source.
C29_Witness ==
    /\ copy.kind = "clone"
    /\ touched.side = "copy"
    /\ vec.elementCount > 0
    /\ Live(copy.elementData, copy.elementCount) # Live(vec.elementData, vec.elementCount)

\* C30: retainAll(c) leaves exactly the held elements that are members of c and
\* removeIf(p) exactly the held elements for which p is false, each as many times as
\* it was held, with natural ordering and with a comparator alike.
C30_FilterKeepsElements ==
    /\ QCalled({"retainAll"}) =>
           \A e \in QElems :
               CountElem(heap, e) = IF e \in qcall.c THEN CountElem(qold, e) ELSE 0
    /\ QCalled({"removeIf"}) =>
           \A e \in QElems :
               CountElem(heap, e) = IF e \in qcall.c THEN 0 ELSE CountElem(qold, e)

\* C31: peek() on a non-empty queue returns the element that poll() would return
\* next, an element and not a (key, element) pair, and leaves the heap as it was.
C31_PeekIsNextPoll ==
    (QCalled({"peek"}) /\ len(qold) > 0) =>
        /\ heap = qold
        /\ qout.exc = "none"
        /\ qout.ret = qpoll(heap, comparator).ret
        /\ qout.ret \in QElems
\* C31 witness: peek() returned on a queue with a comparator holding two or more
\* elements.
C31_Witness ==
    /\ QCalled({"peek"})
    /\ comparator # "None"
    /\ len(qold) >= 2

\* remove(None) and removeFirstOccurrence(None) return what pollFirst returns, an
\* element or None; every other removal by value returns a boolean
ReturnsBoolean ==
    ~(dcall.op \in {"remove", "removeFirstOccurrence"} /\ dcall.e = None)
DReturnedTrue == DReturned /\ ReturnsBoolean /\ dout.ret = TRUE
DReturnedFalse == DReturned /\ ReturnsBoolean /\ dout.ret = FALSE
\* the index of the last entry of q equal to o, or -1
LastIndex0(q, o) ==
    IF \E i \in DOMAIN q : q[i] = o
    THEN CHOOSE i \in DOMAIN q : q[i] = o /\ \A j \in DOMAIN q : q[j] = o => j <= i
    ELSE -1

\* C32: removeFirstOccurrence(o) and remove(o) remove the first element equal to o,
\* removeLastOccurrence(o) the last one, for every element value o, None included;
\* each returns True when an element was removed and False otherwise, and the other
\* elements stay in their order.
C32_RemoveOccurrence ==
    /\ DCalled({"remove", "removeFirstOccurrence"}) =>
           LET k == Index0(dold, dcall.e)
           IN  IF k = -1 THEN deque = dold /\ DReturnedFalse
               ELSE deque = Delete0(dold, k) /\ DReturnedTrue
    /\ DCalled({"removeLastOccurrence"}) =>
           LET k == LastIndex0(dold, dcall.e)
           IN  IF k = -1 THEN deque = dold /\ DReturnedFalse
               ELSE deque = Delete0(dold, k) /\ DReturnedTrue

\* C33: toArray() leaves the queue as it was and returns a list that holds each
\* element as many times as the queue holds it and nothing else, the element that
\* peek() returns at index 0.
C33_ToArrayHoldsElements ==
    QCalled({"toArray"}) =>
        /\ heap = qold
        /\ len(qout.ret) = len(heap)
        /\ \A e \in QElems : Count(qout.ret, e) = CountElem(heap, e)
        /\ len(heap) > 0 => qout.ret[0] = qpeek(heap, comparator).ret

\* C34: contains(o) of an element o returns True exactly when the queue holds an
\* element equal to o (added and neither polled nor removed since), with natural
\* ordering and with a comparator alike.
C34_ContainsHeldElement ==
    (QCalled({"contains"}) /\ qcall.o \in QElems) =>
        /\ heap = qold
        /\ qout.ret = (CountElem(heap, qcall.o) > 0)

\* C35: after removeAll(c) the queue holds no element of c, however many times it
\* held it; every other element is held as many times as before, and the heap
\* property holds.
C35_RemoveAllRemovesEvery ==
    QCalled({"removeAll"}) =>
        /\ \A e \in QElems :
               CountElem(heap, e) = IF e \in qcall.c THEN 0 ELSE CountElem(qold, e)
        /\ HeapOrdered(heap)

\* C36: an ArrayDeque constructed with an int initial capacity is empty: size()
\* returns 0, isEmpty() True and peekFirst() None, and after addLast(x) the first
\* poll() returns x.
C36_CapacityDequeIsEmpty ==
    DCalled({"init"}) =>
        /\ dsize(deque).ret = 0
        /\ disEmpty(deque).ret = TRUE
        /\ dpeekFirst(deque).ret = None
        /\ \A x \in Elems : dpoll(daddLast(deque, x).deque).ret = x

\* C37: offer(e) and offerLast(e) insert e at the tail and offerFirst(e) at the
\* head, the size grows by one, and each returns True (so not None).
C37_OfferReturnsTrue ==
    DCalled({"offer", "offerFirst", "offerLast"}) =>
        /\ DReturned
        /\ len(deque) = len(dold) + 1
        /\ deque = IF dcall.op = "offerFirst" THEN Insert0(dold, dcall.e)
                   ELSE Append0(dold, dcall.e)
        /\ dout.ret # None
        /\ dout.ret = TRUE

====
